---- MODULE Spec2Model ----
(***************************************************************************)
(* Model of scripts/ttl_to_csv.py: the conversion of a directory of Turtle *)
(* files holding SPARQL examples into the CSV table used by EMI.           *)
(*                                                                         *)
(* Strings are sequences of Unicode code points, so that splitting,        *)
(* stripping, digit tests, integer parsing and lexicographic comparison    *)
(* are computed as Python computes them.                                   *)
(***************************************************************************)
EXTENDS Integers, Sequences, FiniteSets

VARIABLES
    args,           \* the parsed command line (argparse.Namespace)
    dir,            \* the entries of examples_dir, an unordered set
    pc,             \* position of main
    ttl_files,      \* main's sorted list of .ttl paths (entry names)
    fi,             \* index in ttl_files of the next file of the for loop
    rows,           \* main's accumulating list of ExampleRow
    wi,             \* index in rows of the next row of the write loop
    destination,    \* "none" before line 154, then "file" or "stdout"
    fileState,      \* the -o file: "untouched", "open" or "closed"
    fileContent,    \* the CSV records written to the -o file
    stdoutOpen,     \* sys.stdout is open
    stdoutContent,  \* the CSV records written to sys.stdout
    error,          \* the exception that ended main, or NoError
    exit_code,      \* main's return value, -1 while it has not returned
    unsorted        \* history: the row list as it stood when line 148 began

vars == <<args, dir, pc, ttl_files, fi, rows, wi, destination, fileState,
          fileContent, stdoutOpen, stdoutContent, error, exit_code, unsorted>>

----------------------------------------------------------------------------
(* Bounds of the model *)

\* largest number of .ttl files in the directory
MaxFiles == 2
\* largest number of executable subjects over all files of the directory
MaxSubjects == 2
\* longest subject text of the identifier specification
MaxLen == 3
\* most comment objects of a subject in the comment specification
MaxComments == 2
\* most values of one query predicate in the query specification
MaxVals == 2

----------------------------------------------------------------------------
(* Strings *)

\* the code points str.strip() removes (str.isspace), up to U+00A0
Whitespace == {9, 10, 11, 12, 13, 28, 29, 30, 31, 32, 133, 160}

\* str.isdigit() per character: 0-9 and the superscripts U+00B2, U+00B3, U+00B9
IsDigitChar(c) == c \in (48..57) \cup {178, 179, 185}

\* the characters int() accepts as digits: 0-9 (category Nd)
IsDecimalChar(c) == c \in 48..57

EmptyStr == <<>>

Range(s) == {s[i] : i \in 1..Len(s)}

RECURSIVE LStrip(_)
LStrip(s) ==
    IF s # <<>> /\ Head(s) \in Whitespace THEN LStrip(Tail(s)) ELSE s

RECURSIVE RStrip(_)
RStrip(s) ==
    IF s # <<>> /\ s[Len(s)] \in Whitespace
    THEN RStrip(SubSeq(s, 1, Len(s) - 1))
    ELSE s

\* str.strip()
Strip(s) == RStrip(LStrip(s))

\* separator in text
Contains(sep, s) == sep \in Range(s)

\* index of the last occurrence of sep in s, scanning from the right; 0 if none
RECURSIVE RFind(_, _, _)
RFind(s, sep, i) ==
    IF i = 0 THEN 0
    ELSE IF s[i] = sep THEN i
    ELSE RFind(s, sep, i - 1)

\* text.rsplit(separator, 1)[-1]
RSplitLast(s, sep) ==
    LET i == RFind(s, sep, Len(s))
    IN  SubSeq(s, i + 1, Len(s))

\* str.lower() on ASCII letters
Lower(s) == [i \in 1..Len(s) |-> IF s[i] \in 65..90 THEN s[i] + 32 ELSE s[i]]

\* lexicographic order of str by code point: a < b
RECURSIVE StrLess(_, _)
StrLess(a, b) ==
    IF b = <<>> THEN FALSE
    ELSE IF a = <<>> THEN TRUE
    ELSE IF Head(a) # Head(b) THEN Head(a) < Head(b)
    ELSE StrLess(Tail(a), Tail(b))

\* str(n) for an int n >= 0
RECURSIVE IntToStr(_)
IntToStr(n) ==
    IF n < 10 THEN <<48 + n>>
    ELSE Append(IntToStr(n \div 10), 48 + (n % 10))

\* int(s) for a string of decimal digits
RECURSIVE DecimalValue(_)
DecimalValue(s) ==
    IF s = <<>> THEN 0
    ELSE 10 * DecimalValue(SubSeq(s, 1, Len(s) - 1)) + (s[Len(s)] - 48)

\* pathlib: Path.suffix, the last dot-component of the name, "" if none
PathSuffix(name) ==
    LET i == RFind(name, 46, Len(name))
    IN  IF i > 1 /\ i < Len(name) THEN SubSeq(name, i, Len(name)) ELSE <<>>

\* pathlib: Path.stem, the name without its suffix
PathStem(name) ==
    LET i == RFind(name, 46, Len(name))
    IN  IF i > 1 /\ i < Len(name) THEN SubSeq(name, 1, i - 1) ELSE name

----------------------------------------------------------------------------
(* The Example Extractor *)

\* the four query predicates, in priority order
QUERY_PREDICATES == <<"select", "ask", "construct", "describe">>

\* the ExampleRow dataclass
ExampleRow(identifier, backend_id, name, query) ==
    [identifier |-> identifier, backend_id |-> backend_id,
     name |-> name, query |-> query]

\* faulty variant of as_csv_row: the identifier column is never blanked
as_csv_row_keeps_identifier(row, include_identifier) ==
    << row.identifier, IntToStr(row.backend_id), row.name, row.query,
       EmptyStr, <<126>> >>

\* ExampleRow.as_csv_row
as_csv_row(row, include_identifier) ==
    << IF include_identifier THEN row.identifier ELSE EmptyStr,
       IntToStr(row.backend_id),
       row.name,
       row.query,
       EmptyStr,
       <<126>> >>

\* one pass of the separator loop of extract_identifier
SplitOn(text, separator) ==
    IF Contains(separator, text) THEN RSplitLast(text, separator) ELSE text

\* the part of text after the first separator, text itself if it has none
RECURSIVE AfterFirst(_, _)
AfterFirst(text, separator) ==
    IF text = <<>> THEN <<>>
    ELSE IF Head(text) = separator THEN Tail(text)
    ELSE AfterFirst(Tail(text), separator)

\* faulty variant of extract_identifier: split instead of rsplit, so the text
\* is cut at the first separator
extract_identifier_first_split(subject, ttl_file) ==
    LET cut(t, sep) == IF Contains(sep, t) THEN AfterFirst(t, sep) ELSE t
        text == cut(cut(Strip(subject), 35), 47)
    IN  IF text # EmptyStr THEN text ELSE PathStem(ttl_file)

\* extract_identifier(subject, ttl_file); 35 is '#', 47 is '/'
extract_identifier(subject, ttl_file) ==
    LET text == SplitOn(SplitOn(Strip(subject), 35), 47)
    IN  IF text # EmptyStr THEN text ELSE PathStem(ttl_file)

\* Python's None, for the fallback of pick_comment
None == <<-1>>

\* the language tag "en"
EN == "en"

\* the for loop of pick_comment from position i with the fallback so far;
\* a comment object is [is_literal, language, text]
RECURSIVE PickCommentLoop(_, _, _, _)
PickCommentLoop(comments, i, fallback, ttl_file) ==
    IF i > Len(comments)
    THEN IF fallback # None /\ fallback # EmptyStr
         THEN fallback
         ELSE PathStem(ttl_file)
    ELSE LET literal == comments[i]
         IN  IF ~literal.is_literal
             THEN PickCommentLoop(comments, i + 1, fallback, ttl_file)
             ELSE IF literal.language = EN
             THEN literal.text
             ELSE PickCommentLoop(comments, i + 1,
                      IF fallback = None THEN literal.text ELSE fallback,
                      ttl_file)

\* faulty variant of pick_comment: the first literal wins whatever its
\* language
pick_comment_first_literal(comments, ttl_file) ==
    LET literals == SelectSeq(comments, LAMBDA c : c.is_literal)
    IN  IF literals # <<>> /\ literals[1].text # EmptyStr
        THEN literals[1].text
        ELSE PathStem(ttl_file)

\* pick_comment(comments, ttl_file)
pick_comment(comments, ttl_file) == PickCommentLoop(comments, 1, None, ttl_file)

\* the for loop of pick_query from predicate i; queries maps each predicate
\* to the sequence of its values on the subject, in graph.objects order
RECURSIVE PickQueryLoop(_, _, _, _)
PickQueryLoop(queries, i, subject, ttl_file) ==
    IF i > Len(QUERY_PREDICATES)
    THEN [raised |-> TRUE, value |-> EmptyStr,
          error |-> [kind |-> "NoQuery", file |-> ttl_file, subject |-> subject]]
    ELSE LET objects == queries[QUERY_PREDICATES[i]]
         IN  IF objects # <<>>
             THEN [raised |-> FALSE, value |-> Head(objects),
                   error |-> [kind |-> "none", file |-> EmptyStr, subject |-> EmptyStr]]
             ELSE PickQueryLoop(queries, i + 1, subject, ttl_file)

\* faulty variant of pick_query: the predicates are tried in the order
\* DESCRIBE, CONSTRUCT, ASK, SELECT
pick_query_reversed(queries, subject, ttl_file) ==
    PickQueryLoop([select |-> queries.describe, ask |-> queries.construct,
                   construct |-> queries.ask, describe |-> queries.select],
                  1, subject, ttl_file)

\* pick_query(graph, subject, ttl_file); the graph is read only through the
\* subject's own query values
pick_query(queries, subject, ttl_file) == PickQueryLoop(queries, 1, subject, ttl_file)

\* no exception
NoError == [kind |-> "none", file |-> EmptyStr, subject |-> EmptyStr]

\* the for loop of iter_examples from subject k of the file's graph, with the
\* rows yielded so far; the generator stops at the first exception
RECURSIVE IterLoop(_, _, _, _)
IterLoop(entry, backend_id, k, yielded) ==
    IF k > Len(entry.subjects)
    THEN [rows |-> yielded, error |-> NoError]
    ELSE LET subject == entry.subjects[k]
             identifier == extract_identifier(subject.text, entry.name)
             name == pick_comment(subject.comments, entry.name)
             query == pick_query(subject.queries, subject.text, entry.name)
         IN  IF query.raised
             THEN [rows |-> yielded, error |-> query.error]
             ELSE IterLoop(entry, backend_id, k + 1,
                      Append(yielded,
                             ExampleRow(identifier, backend_id, name, query.value)))

\* iter_examples(ttl_file, backend_id): the rows the generator yields and the
\* exception that ends it, if any; graph.parse fails before any row
iter_examples(entry, backend_id) ==
    IF ~entry.parse_ok
    THEN [rows |-> <<>>,
          error |-> [kind |-> "ParseError", file |-> entry.name, subject |-> EmptyStr]]
    ELSE IterLoop(entry, backend_id, 1, <<>>)

----------------------------------------------------------------------------
(* The natural sort *)

\* value.isdigit()
IsDigit(value) == value # <<>> /\ \A i \in 1..Len(value) : IsDigitChar(value[i])

\* natural_sort_key(value): the key, or the ValueError of int(value)
natural_sort_key(value) ==
    IF IsDigit(value)
    THEN IF \A i \in 1..Len(value) : IsDecimalChar(value[i])
         THEN [raised |-> FALSE, tier |-> 0, num |-> DecimalValue(value), str |-> EmptyStr]
         ELSE [raised |-> TRUE, tier |-> 0, num |-> 0, str |-> EmptyStr]
    ELSE [raised |-> FALSE, tier |-> 1, num |-> 0, str |-> value]

\* tuple comparison of two keys: a < b
KeyLess(a, b) ==
    \/ a.tier < b.tier
    \/ /\ a.tier = b.tier
       /\ IF a.tier = 0 THEN a.num < b.num ELSE StrLess(a.str, b.str)

\* the lambda of line 148
RowKey(row) == natural_sort_key(row.identifier)

\* insertion of row r behind every row of the sorted list s that is not greater
RECURSIVE InsertRow(_, _)
InsertRow(s, r) ==
    IF s = <<>> THEN <<r>>
    ELSE IF KeyLess(RowKey(r), RowKey(Head(s))) THEN <<r>> \o s
    ELSE <<Head(s)>> \o InsertRow(Tail(s), r)

\* list.sort(key=...): a stable sort
RECURSIVE SortRows(_)
SortRows(list) ==
    IF list = <<>> THEN <<>>
    ELSE InsertRow(SortRows(SubSeq(list, 1, Len(list) - 1)), list[Len(list)])

----------------------------------------------------------------------------
(* The inputs: the command line and the directory *)

\* the default of --backend-id
DefaultBackendId == 69

\* the values of --backend-id of the model
BackendIds == {DefaultBackendId, 5}

\* the command lines: -o given or not, a backend id, --prefix-id-in-title or not
ArgSets ==
    [output : BOOLEAN, backend_id : BackendIds, prefix_id_in_title : BOOLEAN]

\* a comment object of a subject: a literal with a language tag ("" if none)
Lit(language, text) == [is_literal |-> TRUE, language |-> language, text |-> text]

\* the values of the four query predicates of a subject
Queries(select, ask, construct, describe) ==
    [select |-> select, ask |-> ask, construct |-> construct, describe |-> describe]

\* an executable subject of a graph
Subject(text, comments, queries) ==
    [text |-> text, comments |-> comments, queries |-> queries]

\* the executable subjects of the pipeline specification:
\*   x#2 (en comment, SELECT and CONSTRUCT), y#02 (no comment, ASK),
\*   x/10 (fr comment, CONSTRUCT), a (DESCRIBE), x#- (SELECT),
\*   x#<superscript two> (SELECT), x#q (no query at all)
SubjectPool ==
    { Subject(<<120, 35, 50>>, <<Lit(EN, <<65>>)>>,
              Queries(<<<<83>>>>, <<>>, <<<<67>>>>, <<>>)),
      Subject(<<121, 35, 48, 50>>, <<>>,
              Queries(<<>>, <<<<75>>>>, <<>>, <<>>)),
      Subject(<<120, 47, 49, 48>>, <<Lit("fr", <<66>>)>>,
              Queries(<<>>, <<>>, <<<<67>>>>, <<>>)),
      Subject(<<97>>, <<Lit("", <<65>>)>>,
              Queries(<<>>, <<>>, <<>>, <<<<68>>>>)),
      Subject(<<120, 35, 45>>, <<Lit(EN, <<66>>)>>,
              Queries(<<<<83>>>>, <<>>, <<>>, <<>>)),
      Subject(<<120, 35, 178>>, <<Lit(EN, <<65>>)>>,
              Queries(<<<<83>>>>, <<>>, <<>>, <<>>)),
      Subject(<<120, 35, 113>>, <<Lit(EN, <<65>>)>>,
              Queries(<<>>, <<>>, <<>>, <<>>)) }

\* the sequences without repetition of at most n elements of S
InjSeqs(S, n) ==
    UNION { { s \in [1..k -> S] : \A i, j \in 1..k : s[i] = s[j] => i = j }
            : k \in 0..n }

\* the name of the i-th Turtle file: f<i>.ttl, or f<i>.TTL for even i
FileName(i) ==
    <<102, 48 + i>> \o (IF i % 2 = 1 THEN <<46, 116, 116, 108>>
                                     ELSE <<46, 84, 84, 76>>)

\* a directory entry: a regular file or not, and for a Turtle file whether it
\* parses and the executable subjects of its graph in enumeration order
Entry(name, is_file, parse_ok, subjects) ==
    [name |-> name, is_file |-> is_file, parse_ok |-> parse_ok, subjects |-> subjects]

\* entries main must leave out: the file n.txt and the directory d.ttl
OtherEntries ==
    { Entry(<<110, 46, 116, 120, 116>>, TRUE, TRUE, <<>>),
      Entry(<<100, 46, 116, 116, 108>>, FALSE, TRUE, <<>>) }

\* the sequences without repetition of exactly k elements of S
InjSeqsOfLen(S, k) ==
    { s \in [1..k -> S] : \A i, j \in 1..k : s[i] = s[j] => i = j }

\* what the i-th file can be with exactly k subjects, as a set of entries:
\* a graph of k subjects and, for k = 0, also no file or an unparsable file
FileChoices(i, k) ==
    { {Entry(FileName(i), TRUE, TRUE, s)} : s \in InjSeqsOfLen(SubjectPool, k) }
    \cup (IF k = 0 THEN {{}, {Entry(FileName(i), TRUE, FALSE, <<>>)}} ELSE {})

\* the sets of Turtle files f1..fn holding at most budget subjects in all
RECURSIVE FileSets(_, _)
FileSets(n, budget) ==
    IF n = 0 THEN {{}}
    ELSE UNION { { rest \cup c : rest \in FileSets(n - 1, budget - k),
                                 c \in FileChoices(n, k) }
                 : k \in 0..budget }

\* the directories: not a directory at all, or one of the file sets next to
\* the other entries
Directories ==
    {[is_dir |-> FALSE, entries |-> {}]}
    \cup { [is_dir |-> TRUE, entries |-> files \cup OtherEntries]
           : files \in FileSets(MaxFiles, MaxSubjects) }

----------------------------------------------------------------------------
(* main *)

\* the header record of line 159
Header ==
    << <<105, 100>>,
       <<98, 97, 99, 107, 101, 110, 100>>,
       <<110, 97, 109, 101>>,
       <<113, 117, 101, 114, 121>>,
       <<83, 116, 114, 117, 99, 116, 117, 114, 101, 32, 111, 102, 32, 115, 111,
         114, 116, 75, 101, 121, 32, 91, 105, 100, 99, 111, 100, 101, 93>>,
       <<115, 111, 114, 116, 75, 101, 121>> >>

\* the entry behind a path of the directory
EntryOf(name) == CHOOSE e \in dir.entries : e.name = name

\* the filter of lines 138-139: path.is_file() and path.suffix.lower() == ".ttl"
IsTtlFile(e) == e.is_file /\ Lower(PathSuffix(e.name)) = <<46, 116, 116, 108>>

\* sorted(...) of a set of paths, by name
RECURSIVE SortedPaths(_)
SortedPaths(names) ==
    IF names = {} THEN <<>>
    ELSE LET first == CHOOSE n \in names : \A m \in names \ {n} : StrLess(n, m)
         IN  <<first>> \o SortedPaths(names \ {first})

\* the state before main runs
InitMain ==
    /\ pc = "start"
    /\ ttl_files = <<>>
    /\ fi = 1
    /\ rows = <<>>
    /\ wi = 1
    /\ destination = "none"
    /\ fileState = "untouched"
    /\ fileContent = <<>>
    /\ stdoutOpen = TRUE
    /\ stdoutContent = <<>>
    /\ error = NoError
    /\ exit_code = -1
    /\ unsorted = <<>>

Init ==
    /\ args \in ArgSets
    /\ dir \in Directories
    /\ InitMain

\* an exception leaves main: the process exits non-zero
Raise(e) ==
    /\ pc' = "aborted"
    /\ error' = e

\* lines 130-133: the directory test
CheckDir ==
    /\ pc = "start"
    /\ IF dir.is_dir
       THEN pc' = "discover" /\ error' = error
       ELSE Raise([kind |-> "DirectoryNotFound", file |-> EmptyStr, subject |-> EmptyStr])
    /\ UNCHANGED <<args, dir, ttl_files, fi, rows, wi, destination, fileState,
                   fileContent, stdoutOpen, stdoutContent, exit_code, unsorted>>

\* faulty variant of Discover: the destination is opened before the files
\* are read
DiscoverOpeningOutput ==
    /\ pc = "discover"
    /\ LET found == SortedPaths({e.name : e \in {x \in dir.entries : IsTtlFile(x)}})
       IN  /\ ttl_files' = found
           /\ IF found = <<>>
              THEN Raise([kind |-> "NoTtlFiles", file |-> EmptyStr, subject |-> EmptyStr])
              ELSE pc' = "extract" /\ error' = error
    /\ rows' = <<>>
    /\ fi' = 1
    /\ fileState' = IF args.output THEN "open" ELSE fileState
    /\ UNCHANGED <<args, dir, wi, destination, fileContent,
                   stdoutOpen, stdoutContent, exit_code, unsorted>>

\* lines 135-143: the sorted list of .ttl files, and the empty-list test
Discover ==
    /\ pc = "discover"
    /\ LET found == SortedPaths({e.name : e \in {x \in dir.entries : IsTtlFile(x)}})
       IN  /\ ttl_files' = found
           /\ IF found = <<>>
              THEN Raise([kind |-> "NoTtlFiles", file |-> EmptyStr, subject |-> EmptyStr])
              ELSE pc' = "extract" /\ error' = error
    /\ rows' = <<>>
    /\ fi' = 1
    /\ UNCHANGED <<args, dir, wi, destination, fileState, fileContent,
                   stdoutOpen, stdoutContent, exit_code, unsorted>>

\* faulty variant of Extract: rows = list(...) instead of rows.extend(...)
ExtractReplacing ==
    /\ pc = "extract"
    /\ fi <= Len(ttl_files)
    /\ LET got == iter_examples(EntryOf(ttl_files[fi]), args.backend_id)
       IN  /\ rows' = got.rows
           /\ IF got.error # NoError
              THEN Raise(got.error) /\ fi' = fi
              ELSE /\ fi' = fi + 1
                   /\ pc' = IF fi = Len(ttl_files) THEN "sort" ELSE "extract"
                   /\ error' = error
    /\ UNCHANGED <<args, dir, ttl_files, wi, destination, fileState, fileContent,
                   stdoutOpen, stdoutContent, exit_code, unsorted>>

\* lines 145-146: one iteration of the for loop, rows.extend(iter_examples(...));
\* extend keeps the rows yielded before an exception
Extract ==
    /\ pc = "extract"
    /\ fi <= Len(ttl_files)
    /\ LET got == iter_examples(EntryOf(ttl_files[fi]), args.backend_id)
       IN  /\ rows' = rows \o got.rows
           /\ IF got.error # NoError
              THEN Raise(got.error) /\ fi' = fi
              ELSE /\ fi' = fi + 1
                   /\ pc' = IF fi = Len(ttl_files) THEN "sort" ELSE "extract"
                   /\ error' = error
    /\ UNCHANGED <<args, dir, ttl_files, wi, destination, fileState, fileContent,
                   stdoutOpen, stdoutContent, exit_code, unsorted>>

\* line 148: rows.sort(key=...); a key that raises leaves the list as it was
Sort ==
    /\ pc = "sort"
    /\ unsorted' = rows
    /\ IF \E i \in 1..Len(rows) : RowKey(rows[i]).raised
       THEN /\ Raise([kind |-> "IntValueError", file |-> EmptyStr, subject |-> EmptyStr])
            /\ rows' = rows
       ELSE /\ rows' = SortRows(rows)
            /\ pc' = "prefix"
            /\ error' = error
    /\ UNCHANGED <<args, dir, ttl_files, fi, wi, destination, fileState, fileContent,
                   stdoutOpen, stdoutContent, exit_code>>

\* line 152: f"ex:{row.identifier} {row.name}"
PrefixedName(row) == <<101, 120, 58>> \o row.identifier \o <<32>> \o row.name

\* lines 150-152: the optional title prefixing
Prefix ==
    /\ pc = "prefix"
    /\ rows' = IF args.prefix_id_in_title
               THEN [i \in 1..Len(rows) |-> [rows[i] EXCEPT !.name = PrefixedName(rows[i])]]
               ELSE rows
    /\ pc' = "open"
    /\ UNCHANGED <<args, dir, ttl_files, fi, wi, destination, fileState, fileContent,
                   stdoutOpen, stdoutContent, error, exit_code, unsorted>>

\* line 154: the destination; open(..., "w") creates or truncates the file
Open ==
    /\ pc = "open"
    /\ IF args.output
       THEN /\ destination' = "file"
            /\ fileState' = "open"
            /\ fileContent' = <<>>
       ELSE /\ destination' = "stdout"
            /\ UNCHANGED <<fileState, fileContent>>
    /\ pc' = "header"
    /\ UNCHANGED <<args, dir, ttl_files, fi, rows, wi, stdoutOpen, stdoutContent,
                   error, exit_code, unsorted>>

\* writer.writerow(record) on the destination
WriteRecord(record) ==
    IF destination = "file"
    THEN fileContent' = Append(fileContent, record) /\ stdoutContent' = stdoutContent
    ELSE stdoutContent' = Append(stdoutContent, record) /\ fileContent' = fileContent

\* lines 158-159: the header
WriteHeader ==
    /\ pc = "header"
    /\ WriteRecord(Header)
    /\ wi' = 1
    /\ pc' = "rows"
    /\ UNCHANGED <<args, dir, ttl_files, fi, rows, destination, fileState,
                   stdoutOpen, error, exit_code, unsorted>>

\* lines 160-161: one iteration of the write loop
WriteRow ==
    /\ pc = "rows"
    /\ wi <= Len(rows)
    /\ WriteRecord(as_csv_row(rows[wi], ~args.prefix_id_in_title))
    /\ wi' = wi + 1
    /\ UNCHANGED <<args, dir, pc, ttl_files, fi, rows, destination, fileState,
                   stdoutOpen, error, exit_code, unsorted>>

\* faulty variant of close_output: the destination is always closed
close_output_always(dest) == TRUE

\* line 156: close_output = destination is not sys.stdout
close_output(dest) == dest # "stdout"

\* lines 163-164: the loop is over; close what main opened
Close ==
    /\ pc = "rows"
    /\ wi > Len(rows)
    /\ IF close_output(destination)
       THEN IF destination = "file"
            THEN fileState' = "closed" /\ stdoutOpen' = stdoutOpen
            ELSE stdoutOpen' = FALSE /\ fileState' = fileState
       ELSE UNCHANGED <<fileState, stdoutOpen>>
    /\ pc' = "return"
    /\ UNCHANGED <<args, dir, ttl_files, fi, rows, wi, destination, fileContent,
                   stdoutContent, error, exit_code, unsorted>>

\* line 166: return 0
Return ==
    /\ pc = "return"
    /\ exit_code' = 0
    /\ pc' = "done"
    /\ UNCHANGED <<args, dir, ttl_files, fi, rows, wi, destination, fileState,
                   fileContent, stdoutOpen, stdoutContent, error, unsorted>>

Next ==
    \/ CheckDir
    \/ Discover
    \/ Extract
    \/ Sort
    \/ Prefix
    \/ Open
    \/ WriteHeader
    \/ WriteRow
    \/ Close
    \/ Return

Spec == Init /\ [][Next]_vars

----------------------------------------------------------------------------
(* Specifications of the extractor's functions: main runs on a directory   *)
(* holding one Turtle file f1.ttl with one executable subject, drawn from  *)
(* every subject text, every comment sequence or every query assignment    *)
(* within the bounds.                                                      *)

\* a directory with the single Turtle file f1.ttl holding the single subject
SingleSubjectDir(subject) ==
    [is_dir |-> TRUE,
     entries |-> OtherEntries \cup {Entry(FileName(1), TRUE, TRUE, <<subject>>)}]

\* the command line of these specifications: -o given, default backend id
PlainArgs ==
    [output |-> TRUE, backend_id |-> DefaultBackendId, prefix_id_in_title |-> FALSE]

\* the characters of subject texts: '#', '/', '1', 'a' and U+00A0
IdentAlphabet == {35, 47, 49, 97, 160}

\* the subject texts of at most MaxLen characters: the text of an IRI or of
\* a blank node is not empty and does not begin with whitespace
SubjectTexts ==
    { t \in UNION { [1..k -> IdentAlphabet] : k \in 1..MaxLen } :
        t[1] \notin Whitespace }

InitIdent ==
    /\ args = PlainArgs
    /\ \E text \in SubjectTexts :
           dir = SingleSubjectDir(
                     Subject(text, <<>>, Queries(<<<<83>>>>, <<>>, <<>>, <<>>)))
    /\ InitMain

SpecIdent == InitIdent /\ [][Next]_vars

\* the comment objects: literals tagged en, fr or untagged with the text "",
\* "A" or "B", and an object that is no literal
CommentObjects ==
    { Lit(l, t) : l \in {EN, "fr", ""}, t \in {<<>>, <<65>>, <<66>>} }
    \cup { [is_literal |-> FALSE, language |-> "", text |-> <<85>>] }

InitComment ==
    /\ args = PlainArgs
    /\ \E comments \in InjSeqs(CommentObjects, MaxComments) :
           dir = SingleSubjectDir(
                     Subject(<<120, 35, 50>>, comments,
                             Queries(<<<<83>>>>, <<>>, <<>>, <<>>)))
    /\ InitMain

SpecComment == InitComment /\ [][Next]_vars

\* the values a query predicate can have: "", its letter, its letter and '2'
QueryTexts(letter) == {<<>>, <<letter>>, <<letter, 50>>}

InitQuery ==
    /\ args = PlainArgs
    /\ \E sel \in InjSeqs(QueryTexts(83), MaxVals),
          ask \in InjSeqs(QueryTexts(75), MaxVals),
          con \in InjSeqs(QueryTexts(67), MaxVals),
          des \in InjSeqs(QueryTexts(68), MaxVals) :
           dir = SingleSubjectDir(
                     Subject(<<120, 35, 50>>, <<Lit(EN, <<65>>)>>,
                             Queries(sel, ask, con, des)))
    /\ InitMain

SpecQuery == InitQuery /\ [][Next]_vars

----------------------------------------------------------------------------
(* Vocabulary of the properties *)

\* the records written so far, on whichever destination
Written == IF args.output THEN fileContent ELSE stdoutContent

\* the data records written so far (all but the header)
DataRecords == SubSeq(Written, 2, Len(Written))

\* the Turtle files of the directory: regular files named *.ttl in any case
TurtleEntries ==
    { e \in dir.entries :
        /\ e.is_file
        /\ Len(e.name) > 4
        /\ SubSeq(e.name, Len(e.name) - 3, Len(e.name))
             \in {<<46, 116, 116, 108>>, <<46, 84, 84, 76>>} }

\* the file f1.ttl and its subject, in the single-subject specifications
TheFile == CHOOSE e \in dir.entries : e.name = FileName(1)
TheSubject == TheFile.subjects[1]
TheStem == <<102, 49>>

\* main is past the for loop of lines 145-146 (or was stopped in it)
Extracted == pc \notin {"start", "discover", "extract"}

\* the permutations of 1..n
Perms(n) == { p \in [1..n -> 1..n] : \A i, j \in 1..n : p[i] = p[j] => i = j }

\* the natural key as the specification words it: made only of decimal digits
AllDecimal(s) == s # <<>> /\ \A i \in 1..Len(s) : s[i] \in 48..57

RECURSIVE NoLeadingZeros(_)
NoLeadingZeros(s) ==
    IF Len(s) > 1 /\ Head(s) = 48 THEN NoLeadingZeros(Tail(s)) ELSE s

\* a < b as integers, for strings of decimal digits
NumLess(a, b) ==
    LET x == NoLeadingZeros(a)
        y == NoLeadingZeros(b)
    IN  Len(x) < Len(y) \/ (Len(x) = Len(y) /\ StrLess(x, y))

\* the natural order of two identifiers: the key of a is below the key of b
NaturalLess(a, b) ==
    IF AllDecimal(a)
    THEN IF AllDecimal(b) THEN NumLess(a, b) ELSE TRUE
    ELSE IF AllDecimal(b) THEN FALSE ELSE StrLess(a, b)

\* r is the stable sort of u by the natural key of identifier
IsStableNaturalSort(u, r) ==
    /\ Len(r) = Len(u)
    /\ \E p \in Perms(Len(u)) :
         /\ \A i \in 1..Len(u) : r[i] = u[p[i]]
         /\ \A i, j \in 1..Len(u) :
              i < j =>
                /\ ~NaturalLess(r[j].identifier, r[i].identifier)
                /\ ~NaturalLess(r[i].identifier, r[j].identifier) => p[i] < p[j]

\* the rows of the files f1..fn in file-name order, each file's rows in its
\* graph's enumeration order
RECURSIVE RowsOfFiles(_)
RowsOfFiles(n) ==
    IF n = 0 THEN <<>>
    ELSE RowsOfFiles(n - 1)
         \o (IF \E e \in TurtleEntries : e.name = FileName(n)
             THEN iter_examples(CHOOSE e \in TurtleEntries : e.name = FileName(n),
                                args.backend_id).rows
             ELSE <<>>)

----------------------------------------------------------------------------
(* C1 *)

\* C1: every ExampleRow produced by iter_examples has a non-empty identifier,
\* a non-empty name and a non-empty query, so a subject without a non-empty
\* query never becomes a row.
C1_RowsNonEmpty ==
    \A i \in 1..Len(rows) :
        /\ rows[i].identifier # EmptyStr
        /\ rows[i].name # EmptyStr
        /\ rows[i].query # EmptyStr

----------------------------------------------------------------------------
(* C2 *)

\* the causes of an abort the claim lists
ListedAborts == {"DirectoryNotFound", "NoTtlFiles", "ParseError", "NoQuery"}

\* C2: when main aborts because the directory is missing, holds no .ttl file,
\* a file does not parse or a subject has no query predicate, the destination
\* was never opened and nothing was written, on the file or on standard output.
C2_AbortWritesNothing ==
    (pc = "aborted" /\ error.kind \in ListedAborts) =>
        /\ destination = "none"
        /\ fileState = "untouched"
        /\ fileContent = <<>>
        /\ stdoutContent = <<>>
        /\ exit_code # 0

\* an abort on the second file of the sorted list, after the first gave rows
C2_Witness ==
    /\ pc = "aborted"
    /\ error.kind = "NoQuery"
    /\ error.file = FileName(2)
    /\ rows # <<>>
    /\ args.output

----------------------------------------------------------------------------
(* C3 *)

\* C3: the key is computed for every identifier without failing, and the rows
\* main goes on with after line 148 are the stable natural sort of the
\* concatenation of the per-file rows in file-name order: numeric identifiers
\* first in increasing integer order, textual ones after in lexicographic
\* order, equal keys in concatenation order.
C3_NaturalSort ==
    /\ error.kind # "IntValueError"
    /\ pc = "prefix" =>
         /\ unsorted = RowsOfFiles(MaxFiles)
         /\ IsStableNaturalSort(unsorted, rows)

----------------------------------------------------------------------------
(* C4 *)

\* predicate i of QUERY_PREDICATES has a value on the subject
HasValue(i) == TheSubject.queries[QUERY_PREDICATES[i]] # <<>>

\* C4: the row of a subject carries the text of the first of SELECT, ASK,
\* CONSTRUCT, DESCRIBE that has a value; when none has, main aborts with an
\* error naming the file and the subject and the subject gives no row.
C4_QueryPriority ==
    Extracted =>
        IF \E i \in 1..4 : HasValue(i)
        THEN /\ error.kind # "NoQuery"
             /\ Len(rows) = 1
             /\ \E i \in 1..4 :
                  /\ HasValue(i)
                  /\ \A j \in 1..(i - 1) : ~HasValue(j)
                  /\ rows[1].query = TheSubject.queries[QUERY_PREDICATES[i]][1]
        ELSE /\ pc = "aborted"
             /\ error = [kind |-> "NoQuery", file |-> TheFile.name,
                         subject |-> TheSubject.text]
             /\ rows = <<>>
             /\ Written = <<>>

\* a subject with a SELECT and a CONSTRUCT body whose row holds the SELECT body
C4_Witness ==
    /\ pc = "done"
    /\ TheSubject.queries.select = << <<83>>, <<83, 50>> >>
    /\ TheSubject.queries.ask = <<>>
    /\ TheSubject.queries.construct = << <<67>> >>
    /\ rows[1].query = <<83>>

----------------------------------------------------------------------------
(* C5 *)

\* the comment literals of the subject, in iteration order
Literals == SelectSeq(TheSubject.comments, LAMBDA c : c.is_literal)

HasEn == \E i \in 1..Len(Literals) : Literals[i].language = EN

\* C5 as claimed: the text of an en-tagged literal if there is one, otherwise
\* the text of the first literal, and the file's base name only when the
\* subject has no comment literal at all.
C5_Original ==
    Len(rows) = 1 =>
        /\ HasEn =>
             \E i \in 1..Len(Literals) :
                 Literals[i].language = EN /\ rows[1].name = Literals[i].text
        /\ (~HasEn /\ Literals # <<>>) => rows[1].name = Literals[1].text
        /\ Literals = <<>> => rows[1].name = TheStem
        /\ rows[1].name = TheStem => Literals = <<>>

\* C5 amended: the text of an en-tagged literal if there is one; otherwise
\* the text of the first literal when that text is not empty; and the file's
\* base name when there is no comment literal or when no literal is en-tagged
\* and the first literal's text is empty.
C5_Amended ==
    Len(rows) = 1 =>
        /\ HasEn =>
             \E i \in 1..Len(Literals) :
                 Literals[i].language = EN /\ rows[1].name = Literals[i].text
        /\ (~HasEn /\ Literals # <<>> /\ Literals[1].text # EmptyStr) =>
             rows[1].name = Literals[1].text
        /\ (~HasEn /\ (Literals = <<>> \/ Literals[1].text = EmptyStr)) =>
             rows[1].name = TheStem
        /\ rows[1].name = TheStem =>
             (~HasEn /\ (Literals = <<>> \/ Literals[1].text = EmptyStr))

\* a first literal with empty text followed by a literal with text, none
\* tagged en: the name is the file's base name
C5_Witness ==
    /\ Len(rows) = 1
    /\ TheSubject.comments = <<Lit("fr", <<>>), Lit("", <<66>>)>>
    /\ rows[1].name = TheStem

----------------------------------------------------------------------------
(* C6 *)

\* the part of s after the last c, the whole of s if it holds no c
AfterLast(s, c) ==
    IF c \in Range(s)
    THEN LET i == CHOOSE k \in 1..Len(s) :
                      s[k] = c /\ \A j \in (k + 1)..Len(s) : s[j] # c
         IN  SubSeq(s, i + 1, Len(s))
    ELSE s

\* after the last '#', then after the last '/', the base name if empty
LocalName(s) ==
    LET r == AfterLast(AfterLast(s, 35), 47)
    IN  IF r = EmptyStr THEN TheStem ELSE r

\* s without its leading and trailing whitespace
Trimmed(s) ==
    LET solid == {i \in 1..Len(s) : s[i] \notin Whitespace}
    IN  IF solid = {} THEN <<>>
        ELSE SubSeq(s, CHOOSE i \in solid : \A j \in solid : i <= j,
                       CHOOSE i \in solid : \A j \in solid : j <= i)

NoSeparator(s) == 35 \notin Range(s) /\ 47 \notin Range(s)

\* C6 as claimed: the identifier is the text after the last '#', then after
\* the last '/', of the subject text, the base name if that is empty, and
\* the subject text unchanged when it holds neither separator.
C6_Original ==
    Len(rows) = 1 =>
        /\ rows[1].identifier = LocalName(TheSubject.text)
        /\ NoSeparator(TheSubject.text) => rows[1].identifier = TheSubject.text

\* C6 amended: the same, of the subject text with its leading and trailing
\* whitespace removed; without separator the identifier is that stripped
\* text, or the base name when nothing is left of it.
C6_Amended ==
    /\ error.kind \in {"none", "IntValueError"}
    /\ Extracted => Len(rows) = 1
    /\ Len(rows) = 1 =>
        /\ rows[1].identifier = LocalName(Trimmed(TheSubject.text))
        /\ (NoSeparator(TheSubject.text) /\ Trimmed(TheSubject.text) # EmptyStr) =>
              rows[1].identifier = Trimmed(TheSubject.text)

\* the subject text "/a" followed by U+00A0 gives the identifier "a"
C6_Witness ==
    /\ Len(rows) = 1
    /\ TheSubject.text = <<47, 97, 160>>
    /\ rows[1].identifier = <<97>>

----------------------------------------------------------------------------
(* C7 *)

\* the stable natural sort of u
StableNaturalSort(u) ==
    CHOOSE r \in { [i \in 1..Len(u) |-> u[p[i]]] : p \in Perms(Len(u)) } :
        IsStableNaturalSort(u, r)

\* the record of row r with and without --prefix-id-in-title
RecordOf(r, prefixed) ==
    IF prefixed
    THEN << EmptyStr, IntToStr(r.backend_id),
            <<101, 120, 58>> \o r.identifier \o <<32>> \o r.name,
            r.query, EmptyStr, <<126>> >>
    ELSE << r.identifier, IntToStr(r.backend_id), r.name, r.query,
            EmptyStr, <<126>> >>

----------------------------------------------------------------------------
(* C8 *)

\* the (file, executable subject) pairs of the directory
Pairs == UNION { { <<e, k>> : k \in 1..Len(e.subjects) } : e \in TurtleEntries }

\* the record the subject of a pair is due
RecordOfPair(pair) ==
    LET e == pair[1]
        subject == e.subjects[pair[2]]
    IN  RecordOf(ExampleRow(extract_identifier(subject.text, e.name),
                            args.backend_id,
                            pick_comment(subject.comments, e.name),
                            pick_query(subject.queries, subject.text, e.name).value),
                 args.prefix_id_in_title)

\* C8: a successful run has written the header and then one data record for
\* each (file, executable subject) pair of the directory, none dropped and
\* none duplicated, each with the configured backend id.
C8_OneRecordPerSubject ==
    pc = "done" =>
        /\ Written[1] = Header
        /\ Len(DataRecords) = Cardinality(Pairs)
        /\ \A pair \in Pairs :
             Cardinality({i \in 1..Len(DataRecords) : DataRecords[i] = RecordOfPair(pair)})
               = Cardinality({q \in Pairs : RecordOfPair(q) = RecordOfPair(pair)})
        /\ \A i \in 1..Len(DataRecords) :
             DataRecords[i][2] = IntToStr(args.backend_id)

\* two files holding the same subject: two equal records
C8_Witness ==
    /\ pc = "done"
    /\ Cardinality(TurtleEntries) = 2
    /\ Len(DataRecords) = 2
    /\ DataRecords[1] = DataRecords[2]
    /\ DataRecords[1][2] = <<53>>

----------------------------------------------------------------------------
(* C9 *)

\* C9: main closes the destination exactly when it opened it: the -o file is
\* closed once the header and all rows are written and before main returns 0;
\* standard output is written to and never closed.
C9_ClosesOnlyOwnFile ==
    /\ stdoutOpen
    /\ fileState = "closed" =>
         /\ args.output
         /\ pc \in {"return", "done"}
         /\ fileContent = <<Header>> \o [i \in 1..Len(rows) |->
                                            as_csv_row(rows[i], ~args.prefix_id_in_title)]
    /\ exit_code = 0 =>
         IF args.output
         THEN fileState = "closed" /\ stdoutContent = <<>>
         ELSE /\ fileState = "untouched"
              /\ Len(stdoutContent) = 1 + Len(rows)
              /\ stdoutContent[1] = Header

\* main has returned 0 after closing the file it wrote two rows to
C9_Witness ==
    /\ exit_code = 0
    /\ args.output
    /\ fileState = "closed"
    /\ Len(fileContent) = 3

----------------------------------------------------------------------------
(* C10 *)

\* the rows file n can give, over the enumeration orders of its graph
RowsOfAnyOrder(n) ==
    IF \E e \in TurtleEntries : e.name = FileName(n)
    THEN LET e == CHOOSE x \in TurtleEntries : x.name = FileName(n)
         IN  { iter_examples(
                   [e EXCEPT !.subjects = [i \in 1..Len(e.subjects) |-> e.subjects[p[i]]]],
                   args.backend_id).rows
               : p \in Perms(Len(e.subjects)) }
    ELSE {<<>>}

\* the row lists main can hold after the for loop, over the enumeration orders
RECURSIVE AnyOrderRows(_)
AnyOrderRows(n) ==
    IF n = 0 THEN {<<>>}
    ELSE { a \o b : a \in AnyOrderRows(n - 1), b \in RowsOfAnyOrder(n) }

\* the data records main writes from the row list u of the for loop
RecordsFrom(u) ==
    LET sorted == SortRows(u)
    IN  [i \in 1..Len(sorted) |->
            as_csv_row(IF args.prefix_id_in_title
                       THEN [sorted[i] EXCEPT !.name = PrefixedName(sorted[i])]
                       ELSE sorted[i],
                       ~args.prefix_id_in_title)]

\* C10: the order of the data records is the same for every order in which
\* the graphs of the files enumerate their executable subjects.
C10_OrderDeterministic ==
    pc = "done" => \A u \in AnyOrderRows(MaxFiles) : RecordsFrom(u) = DataRecords

====
